---------------------------- MODULE Spec2Model ----------------------------
(***************************************************************************)
(* A model of dpos.py: the portfolio analytics functions (calculate_dcf,   *)
(* calculate_var_cvar, calculate_sharpe_ratio, rebalance_portfolio,        *)
(* efficient_frontier, adjust_portfolio_with_costs) and the sequence of    *)
(* top-level statements the module executes when it is run.                *)
(*                                                                         *)
(* Real numbers are exact rationals [num, den] (den > 0, lowest terms) or  *)
(* integers counted in a stated unit; floating-point rounding is not       *)
(* modelled.  A function call yields [kind |-> "value", val |-> v] or      *)
(* [kind |-> "raise", exc |-> name].                                       *)
(***************************************************************************)
EXTENDS Integers, Sequences, FiniteSets, TLC

VARIABLES
    pc,        \* index in Script of the next top-level statement to execute
    defined,   \* names bound in the module namespace so far
    raised,    \* "none", or the exception that ended the run of the script
    op,        \* the function called last ("none" before any call)
    args,      \* its arguments as the caller passed them
    locals,    \* the values of its local variables when it returned or raised
    result     \* what the call produced: a value or an exception

vars == <<pc, defined, raised, op, args, locals, result>>

----------------------------------------------------------------------------
(* Bounds of the model *)

MaxAssets == 2       \* longest weight vector
MaxWeight == 3       \* largest weight, counted in steps of 0.05
WeightGrid == 4      \* weights given as fractions are multiples of 1/WeightGrid
MaxReturns == 4      \* longest returns array given to calculate_var_cvar
MaxLen == 3          \* longest cash-flow array
MaxSims == 2         \* largest num_simulations

----------------------------------------------------------------------------
(* Arithmetic *)

Abs(x) == IF x < 0 THEN -x ELSE x

RECURSIVE GCD(_, _)
GCD(a, b) == IF b = 0 THEN a ELSE GCD(b, a % b)

\* the rational n/d (d /= 0) in lowest terms with a positive denominator
Rat(n, d) ==
    LET g == GCD(Abs(n), Abs(d))
        s == IF d < 0 THEN -1 ELSE 1
    IN  [num |-> s * (n \div g), den |-> s * (d \div g)]

RatInt(n) == [num |-> n, den |-> 1]

RatAdd(a, b) ==
    LET l == (a.den \div GCD(a.den, b.den)) * b.den
    IN  Rat(a.num * (l \div a.den) + b.num * (l \div b.den), l)

RatSub(a, b) == RatAdd(a, [num |-> -b.num, den |-> b.den])

RatMul(a, b) ==
    LET g1 == GCD(Abs(a.num), b.den)
        g2 == GCD(Abs(b.num), a.den)
        h1 == IF g1 = 0 THEN 1 ELSE g1
        h2 == IF g2 = 0 THEN 1 ELSE g2
    IN  Rat((a.num \div h1) * (b.num \div h2), (a.den \div h2) * (b.den \div h1))

\* a / b for b /= 0
RatDiv(a, b) == RatMul(a, Rat(b.den, b.num))

RECURSIVE RatPow(_, _)
RatPow(a, k) == IF k = 0 THEN RatInt(1) ELSE RatMul(a, RatPow(a, k - 1))

RatLeq(a, b) == RatSub(a, b).num <= 0

RECURSIVE SumSeq(_)
SumSeq(s) == IF s = <<>> THEN 0 ELSE Head(s) + SumSeq(Tail(s))

RECURSIVE RatSumSeq(_)
RatSumSeq(s) == IF s = <<>> THEN RatInt(0) ELSE RatAdd(Head(s), RatSumSeq(Tail(s)))

Value(v) == [kind |-> "value", val |-> v]
Raise(e) == [kind |-> "raise", exc |-> e]
NoCall == [kind |-> "none"]

----------------------------------------------------------------------------
(* rebalance_portfolio: weights and tolerance counted in steps of 0.05 *)

rebalance_mixed(weights, target_weights, tolerance) ==
    [i \in DOMAIN weights |->
        IF Abs(weights[i] - target_weights[i]) > tolerance
        THEN target_weights[i] ELSE weights[i]]

rebalance_portfolio(weights, target_weights, tolerance) ==
    LET deviation == [i \in DOMAIN weights |-> Abs(weights[i] - target_weights[i])]
    IN  IF \E i \in DOMAIN deviation : deviation[i] > tolerance
        THEN target_weights
        ELSE weights

WeightVectors == UNION {[1..n -> 0..MaxWeight] : n \in 1..MaxAssets}

CallRebalance ==
    /\ pc = 1 /\ op = "none"
    /\ \E w \in WeightVectors, tol \in 0..2 :
         \E t \in [DOMAIN w -> 0..MaxWeight] :
            /\ op' = "rebalance_portfolio"
            /\ args' = [weights |-> w, target_weights |-> t, tolerance |-> tol]
            /\ locals' = [deviation |-> [i \in DOMAIN w |-> Abs(w[i] - t[i])]]
            /\ result' = Value(rebalance_portfolio(w, t, tol))
    /\ UNCHANGED <<pc, defined, raised>>

\* C1: when every per-asset deviation |weights[i] - target_weights[i]| is at
\* most the tolerance, rebalance_portfolio returns the input weights; when at
\* least one deviation exceeds it, it returns the whole target vector; the
\* result is never a mix of current and target entries.
C1_RebalanceAllOrNothing ==
    op = "rebalance_portfolio" =>
        LET w == args.weights
            t == args.target_weights
            within == \A i \in DOMAIN w : Abs(w[i] - t[i]) <= args.tolerance
        IN  /\ result.kind = "value"
            /\ within => result.val = w
            /\ ~within => result.val = t
            /\ result.val \in {w, t}

\* one asset is outside the band and another is inside it with a weight that
\* differs from its target, and the whole target vector was returned
C1_Witness ==
    /\ op = "rebalance_portfolio"
    /\ \E i, j \in DOMAIN args.weights :
          /\ Abs(args.weights[i] - args.target_weights[i]) > args.tolerance
          /\ Abs(args.weights[j] - args.target_weights[j]) <= args.tolerance
          /\ args.weights[j] /= args.target_weights[j]
    /\ result = Value(args.target_weights)

----------------------------------------------------------------------------
(* calculate_var_cvar: returns are integers (hundredths); the confidence   *)
(* level is given in percent, so 1 - confidence_level is (100 - c) / 100.  *)

ReturnValues == {-2, -1, 0, 3}
ReturnArrays == UNION {[1..n -> ReturnValues] : n \in 0..MaxReturns}
ConfidenceLevels == {0, 25, 50, 75, 95, 100, 150, 300}

NaN == [num |-> 0, den |-> 0]

\* np.mean of a one-dimensional array: NaN (with a warning) when it is empty
Mean(s) == IF s = <<>> THEN NaN ELSE Rat(SumSeq(s), Len(s))

\* int(a / b) for b > 0: truncation toward zero
TruncDiv(a, b) == IF a >= 0 THEN a \div b ELSE -((-a) \div b)

RECURSIVE InsertDescending(_, _)
InsertDescending(x, s) ==
    IF s = <<>> THEN <<x>>
    ELSE IF x >= Head(s) THEN <<x>> \o s
    ELSE <<Head(s)>> \o InsertDescending(x, Tail(s))

RECURSIVE SortDescending(_)
SortDescending(s) ==
    IF s = <<>> THEN <<>> ELSE InsertDescending(Head(s), SortDescending(Tail(s)))

RECURSIVE Insert(_, _)
Insert(x, s) ==
    IF s = <<>> THEN <<x>>
    ELSE IF x <= Head(s) THEN <<x>> \o s
    ELSE <<Head(s)>> \o Insert(x, Tail(s))

\* np.sort: ascending
RECURSIVE Sort(_)
Sort(s) == IF s = <<>> THEN <<>> ELSE Insert(Head(s), Sort(Tail(s)))

\* Python s[k] on a sequence of length N: k in -N..N-1, counted from the end
\* when negative (the caller checks the range; outside it is IndexError)
InRange(s, k) == -Len(s) <= k /\ k < Len(s)
PyIndex(s, k) == IF k >= 0 THEN s[k + 1] ELSE s[Len(s) + k + 1]

SliceThrough(s, k) ==
    LET stop == IF k >= 0 THEN k + 1 ELSE Len(s) + k + 1
        m == IF stop < 0 THEN 0 ELSE IF stop > Len(s) THEN Len(s) ELSE stop
    IN  SubSeq(s, 1, m)

\* Python s[:k]
SliceTo(s, k) ==
    LET stop == IF k >= 0 THEN k ELSE Len(s) + k
        m == IF stop < 0 THEN 0 ELSE IF stop > Len(s) THEN Len(s) ELSE stop
    IN  SubSeq(s, 1, m)

VarIndex(c, n) == TruncDiv((100 - c) * n, 100)

calculate_var_cvar(returns, c) ==
    LET sorted_returns == Sort(returns)
        index == VarIndex(c, Len(sorted_returns))
    IN  IF ~InRange(sorted_returns, index)
        THEN Raise("IndexError")
        ELSE Value([var |-> PyIndex(sorted_returns, index),
                    cvar |-> Mean(SliceTo(sorted_returns, index))])

CallVarCvar ==
    /\ pc = 1 /\ op = "none"
    /\ \E r \in ReturnArrays, c \in ConfidenceLevels :
          /\ op' = "calculate_var_cvar"
          /\ args' = [returns |-> r, confidence_level |-> c]
          /\ locals' = [sorted_returns |-> Sort(r), index |-> VarIndex(c, Len(r))]
          /\ result' = calculate_var_cvar(r, c)
    /\ UNCHANGED <<pc, defined, raised>>

Count(s, x) == Cardinality({i \in DOMAIN s : s[i] = x})

\* C2 as claimed: whenever calculate_var_cvar returns a pair whose CVaR is a
\* number, VaR <= CVaR.
C2_VarLeqCvar ==
    (op = "calculate_var_cvar" /\ result.kind = "value" /\ result.val.cvar /= NaN)
        => RatLeq(RatInt(result.val.var), result.val.cvar)

\* C2 amended: whenever calculate_var_cvar returns a pair whose CVaR is a
\* number (the averaged tail is not empty), CVaR <= VaR.
C2_CvarLeqVar ==
    (op = "calculate_var_cvar" /\ result.kind = "value" /\ result.val.cvar /= NaN)
        => RatLeq(result.val.cvar, RatInt(result.val.var))

\* a call whose tail holds a return below VaR, so that CVaR < VaR
C2_Witness ==
    /\ op = "calculate_var_cvar"
    /\ result.kind = "value"
    /\ result.val.cvar /= NaN
    /\ ~RatLeq(RatInt(result.val.var), result.val.cvar)
    /\ locals.index >= 2

\* C9: on N >= 1 returns with 0 < c <= 1, calculate_var_cvar sorts ascending,
\* takes index = floor((1 - c) * N), which lies in 0..N-1, returns VaR = the
\* sorted return at that index and CVaR = the mean of the sorted returns
\* strictly before it; when the index is 0 the tail is empty and CVaR is NaN,
\* returned without any guard.
C9_VarCvarDefinition ==
    (/\ op = "calculate_var_cvar"
     /\ Len(args.returns) >= 1
     /\ 0 < args.confidence_level /\ args.confidence_level <= 100)
        => LET n == Len(args.returns)
               c == args.confidence_level
               srt == locals.sorted_returns
               idx == locals.index
           IN  /\ Len(srt) = n
               /\ \A x \in ReturnValues : Count(srt, x) = Count(args.returns, x)
               /\ \A i \in 1..(n - 1) : srt[i] <= srt[i + 1]
               /\ idx \in 0..(n - 1)
               /\ idx * 100 <= (100 - c) * n /\ (100 - c) * n < (idx + 1) * 100
               /\ result.kind = "value"
               /\ result.val.var = srt[idx + 1]
               /\ idx = 0 => result.val.cvar = NaN
               /\ idx > 0 => /\ result.val.cvar.den /= 0
                             /\ result.val.cvar.num * idx
                                  = SumSeq(SubSeq(srt, 1, idx)) * result.val.cvar.den

\* both cases happen: an empty tail (NaN) and a tail of two or more returns
C9_Witness ==
    /\ op = "calculate_var_cvar"
    /\ 0 < args.confidence_level /\ args.confidence_level <= 100
    /\ locals.index = 0
    /\ Len(args.returns) >= 2
    /\ args.returns /= locals.sorted_returns
    /\ result.kind = "value" /\ result.val.cvar = NaN

C9_WitnessTail ==
    /\ op = "calculate_var_cvar"
    /\ 0 < args.confidence_level /\ args.confidence_level <= 100
    /\ locals.index >= 2
    /\ result.kind = "value" /\ result.val.cvar /= NaN

----------------------------------------------------------------------------
(* calculate_sharpe_ratio on Python floats, modelled as rationals *)

sharpe_without_risk_free(portfolio_return, portfolio_stddev, risk_free_rate) ==
    IF portfolio_stddev.num = 0
    THEN Raise("ZeroDivisionError")
    ELSE Value(RatDiv(portfolio_return, portfolio_stddev))

calculate_sharpe_ratio(portfolio_return, portfolio_stddev, risk_free_rate) ==
    IF portfolio_stddev.num = 0
    THEN Raise("ZeroDivisionError")
    ELSE Value(RatDiv(RatSub(portfolio_return, risk_free_rate), portfolio_stddev))

SharpeReturns == {Rat(-2, 100), Rat(0, 1), Rat(5, 100), Rat(1, 10)}
SharpeStddevs == {Rat(0, 1), Rat(1, 100), Rat(4, 100), Rat(1, 5)}
RiskFreeRates == {Rat(0, 1), Rat(1, 100), Rat(2, 100)}
ScaleFactors == {Rat(1, 2), Rat(1, 1), Rat(2, 1), Rat(3, 1)}

\* the function applied to (r, s, rf) and, in locals.scaled, to (k*r, k*s, rf)
CallSharpeRatio ==
    /\ pc = 1 /\ op = "none"
    /\ \E r \in SharpeReturns, sd \in SharpeStddevs, rf \in RiskFreeRates,
          k \in ScaleFactors :
          /\ op' = "calculate_sharpe_ratio"
          /\ args' = [portfolio_return |-> r, portfolio_stddev |-> sd,
                      risk_free_rate |-> rf, k |-> k]
          /\ locals' = [scaled |->
                          calculate_sharpe_ratio(RatMul(k, r), RatMul(k, sd), rf)]
          /\ result' = calculate_sharpe_ratio(r, sd, rf)
    /\ UNCHANGED <<pc, defined, raised>>

\* C3 as claimed: for s > 0 and k > 0, calculate_sharpe_ratio(k*r, k*s, rf)
\* equals calculate_sharpe_ratio(r, s, rf).
C3_ScaleInvariant ==
    (op = "calculate_sharpe_ratio" /\ args.portfolio_stddev.num > 0)
        => locals.scaled = result

\* C3 amended: for s > 0 and k > 0 the two ratios are equal exactly when
\* risk_free_rate = 0 or k = 1.
C3_ScaleInvariantIffNoRiskFree ==
    (op = "calculate_sharpe_ratio" /\ args.portfolio_stddev.num > 0)
        => /\ result.kind = "value" /\ locals.scaled.kind = "value"
           /\ (locals.scaled = result)
                <=> (args.risk_free_rate.num = 0 \/ args.k = RatInt(1))

\* a scaled call with rf = 0 and k /= 1 that agrees with the unscaled one
C3_Witness ==
    /\ op = "calculate_sharpe_ratio"
    /\ args.portfolio_stddev.num > 0
    /\ args.risk_free_rate.num = 0
    /\ args.k = RatInt(3)
    /\ args.portfolio_return.num /= 0
    /\ locals.scaled = result

----------------------------------------------------------------------------
(* adjust_portfolio_with_costs: weights are multiples of 1/WeightGrid.  The *)
(* operator gives the returned array and the caller's weights array as it   *)
(* is after the call.                                                       *)

GridVectors == UNION {[1..n -> {Rat(k, WeightGrid) : k \in 0..WeightGrid}] : n \in 1..MaxAssets}
MarketSignals == {Rat(-1, 2), Rat(0, 1), Rat(1, 100), Rat(1, 4)}
TransactionCosts == {Rat(0, 1), Rat(5, 1000), Rat(1, 5)}

adjust_renormalised(weights, market_signal, transaction_cost) ==
    LET new_weights == [i \in DOMAIN weights |->
                           RatMul(weights[i], RatAdd(RatInt(1), market_signal))]
        scaled == [i \in DOMAIN weights |->
                      RatMul(new_weights[i], RatSub(RatInt(1), transaction_cost))]
        total == RatSumSeq(scaled)
    IN  [ret |-> IF total.num = 0 THEN scaled
                 ELSE [i \in DOMAIN weights |-> RatDiv(scaled[i], total)],
         weights |-> weights]

adjust_portfolio_with_costs(weights, market_signal, transaction_cost) ==
    LET new_weights == [i \in DOMAIN weights |->
                           RatMul(weights[i], RatAdd(RatInt(1), market_signal))]
    IN  [ret |-> [i \in DOMAIN weights |->
                     RatMul(new_weights[i], RatSub(RatInt(1), transaction_cost))],
         weights |-> weights]

CallAdjustPortfolio ==
    /\ pc = 1 /\ op = "none"
    /\ \E w \in GridVectors, sig \in MarketSignals, cost \in TransactionCosts :
          LET out == adjust_portfolio_with_costs(w, sig, cost)
          IN  /\ op' = "adjust_portfolio_with_costs"
              /\ args' = [weights |-> w, market_signal |-> sig,
                          transaction_cost |-> cost]
              /\ locals' = [weights_after |-> out.weights]
              /\ result' = Value(out.ret)
    /\ UNCHANGED <<pc, defined, raised>>

\* (1 + market_signal) * (1 - transaction_cost) as num/den, not reduced
CostFactorNum(a) ==
    (a.market_signal.den + a.market_signal.num)
        * (a.transaction_cost.den - a.transaction_cost.num)
CostFactorDen(a) == a.market_signal.den * a.transaction_cost.den

\* C8: adjust_portfolio_with_costs returns weights[i] * (1 + market_signal) *
\* (1 - transaction_cost) for every asset, so the result sums to that factor
\* times the input sum; for input weights summing to 1 the result sums to 1
\* only when the factor is exactly 1; the input array is left unchanged.
C8_UniformFactorNoRenormalisation ==
    op = "adjust_portfolio_with_costs" =>
        LET w == args.weights
            fn == CostFactorNum(args)
            fd == CostFactorDen(args)
            insum == RatSumSeq(w)
            outsum == RatSumSeq(result.val)
        IN  /\ result.kind = "value"
            /\ DOMAIN result.val = DOMAIN w
            /\ \A i \in DOMAIN w :
                  result.val[i] = Rat(w[i].num * fn, w[i].den * fd)
            /\ outsum = Rat(insum.num * fn, insum.den * fd)
            /\ insum = RatInt(1) => (outsum = RatInt(1) <=> fn = fd)
            /\ locals.weights_after = w

\* two assets with weights summing to 1, a factor other than 1, and a result
\* that no longer sums to 1
C8_Witness ==
    /\ op = "adjust_portfolio_with_costs"
    /\ Len(args.weights) >= 2
    /\ \A i \in DOMAIN args.weights : args.weights[i].num > 0
    /\ RatSumSeq(args.weights) = RatInt(1)
    /\ args.market_signal = Rat(1, 100)
    /\ args.transaction_cost = Rat(5, 1000)
    /\ RatSumSeq(result.val) = Rat(100495, 100000)

----------------------------------------------------------------------------
(* calculate_dcf.  np.random.normal(loc, scale, size) draws loc + scale*z  *)
(* for each cell, with z standard normal; z ranges over NoiseDraws here.   *)
(* It raises ValueError when an entry of scale is negative.                *)

CashFlowValues == {-100, 0, 100}
CashFlowArrays == UNION {[1..n -> CashFlowValues] : n \in 0..MaxLen}
DiscountRates == {Rat(-1, 2), Rat(0, 1), Rat(1, 10)}
NoiseDraws == {0, 1}

\* 0.05 * np.array(cash_flows)
NoiseScale(cash_flows) == [t \in DOMAIN cash_flows |-> Rat(5 * cash_flows[t], 100)]

\* the values np.random.normal can give the sample of period t
Samples(cash_flows, t) ==
    {RatAdd(RatInt(cash_flows[t]), RatMul(NoiseScale(cash_flows)[t], RatInt(z))) :
        z \in NoiseDraws}

\* the rows simulated_cash_flows[i] can be: one sample per period
SimulatedRows(cash_flows) ==
    LET all == UNION {Samples(cash_flows, t) : t \in DOMAIN cash_flows}
    IN  {row \in [DOMAIN cash_flows -> all] :
            \A t \in DOMAIN cash_flows : row[t] \in Samples(cash_flows, t)}

discounted_from_period_zero(row, discount_rate) ==
    RatSumSeq([t \in DOMAIN row |->
        RatDiv(row[t], RatPow(RatAdd(RatInt(1), discount_rate), t - 1))])

\* np.sum([row[t] / (1 + discount_rate) ** (t + 1) for t in range(n)]);
\* the sequence index is t + 1
discounted_value(row, discount_rate) ==
    RatSumSeq([t \in DOMAIN row |->
        RatDiv(row[t], RatPow(RatAdd(RatInt(1), discount_rate), t))])

\* np.mean of a list of numbers
RatMean(s) == IF s = <<>> THEN NaN ELSE RatDiv(RatSumSeq(s), RatInt(Len(s)))

calculate_dcf(simulated_cash_flows, discount_rate) ==
    LET discounted_values == [i \in DOMAIN simulated_cash_flows |->
                                 discounted_value(simulated_cash_flows[i], discount_rate)]
    IN  RatMean(discounted_values)

CallDcfRaises ==
    /\ pc = 1 /\ op = "none"
    /\ \E cf \in CashFlowArrays, rate \in DiscountRates, sims \in 0..MaxSims :
          /\ \E t \in DOMAIN cf : NoiseScale(cf)[t].num < 0
          /\ op' = "calculate_dcf"
          /\ args' = [cash_flows |-> cf, discount_rate |-> rate,
                      num_simulations |-> sims]
          /\ locals' = [n |-> Len(cf), scale |-> NoiseScale(cf), sampled |-> FALSE,
                        simulated_cash_flows |-> <<>>]
          /\ result' = Raise("ValueError")
    /\ UNCHANGED <<pc, defined, raised>>

CallDcf ==
    /\ pc = 1 /\ op = "none"
    /\ \E cf \in CashFlowArrays, rate \in DiscountRates, sims \in 0..MaxSims :
          /\ \A t \in DOMAIN cf : NoiseScale(cf)[t].num >= 0
          /\ \E simulated_cash_flows \in [1..sims -> SimulatedRows(cf)] :
                /\ op' = "calculate_dcf"
                /\ args' = [cash_flows |-> cf, discount_rate |-> rate,
                            num_simulations |-> sims]
                /\ locals' = [n |-> Len(cf), scale |-> NoiseScale(cf), sampled |-> TRUE,
                              simulated_cash_flows |-> simulated_cash_flows]
                /\ result' = Value(calculate_dcf(simulated_cash_flows, rate))
    /\ UNCHANGED <<pc, defined, raised>>

RECURSIVE IntPow(_, _)
IntPow(b, k) == IF k = 0 THEN 1 ELSE b * IntPow(b, k - 1)

\* the closed-form NPV sum_{t=0}^{n-1} cf[t] / (1 + p/q)^(t+1), as one fraction
\* over (q + p)^n
ClosedFormNPV(cf, rate) ==
    LET n == Len(cf)
        q == rate.den
        b == rate.den + rate.num
    IN  Rat(SumSeq([t \in 1..n |-> cf[t] * IntPow(q, t) * IntPow(b, n - t)]),
            IntPow(b, n))

ZeroNoise ==
    /\ locals.sampled
    /\ \A i \in DOMAIN locals.simulated_cash_flows : \A t \in DOMAIN args.cash_flows :
          locals.simulated_cash_flows[i][t] = RatInt(args.cash_flows[t])

\* C4: when every simulated flow equals its nominal cash flow, calculate_dcf
\* returns exactly the closed-form NPV sum_t cash_flows[t] / (1 + rate)^(t+1),
\* for every simulation count >= 1.
C4_ZeroNoiseIsClosedFormNPV ==
    (op = "calculate_dcf" /\ args.num_simulations >= 1 /\ ZeroNoise)
        => result = Value(ClosedFormNPV(args.cash_flows, args.discount_rate))

\* the example: [100, 100, 100] at 0.10 over two simulations gives
\* 331000/1331, between 248.68 and 248.69
C4_Witness ==
    /\ op = "calculate_dcf"
    /\ args.cash_flows = <<100, 100, 100>>
    /\ args.discount_rate = Rat(1, 10)
    /\ args.num_simulations = 2
    /\ ZeroNoise
    /\ result = Value(Rat(331000, 1331))
    /\ 24868 * result.val.den < 100 * result.val.num
    /\ 100 * result.val.num < 24869 * result.val.den

\* C10 as claimed: the standard deviation handed to the sampler for flow t is
\* 0.05 * |cash_flows[t]|, never negative, and the call yields a value.
C10_NoiseScaleIsMagnitude ==
    op = "calculate_dcf" =>
        /\ \A t \in DOMAIN args.cash_flows :
              /\ locals.scale[t] = Rat(5 * Abs(args.cash_flows[t]), 100)
              /\ locals.scale[t].num >= 0
        /\ result.kind = "value"

----------------------------------------------------------------------------
(* efficient_frontier.  scipy.optimize.minimize is outside the module: its  *)
(* OptimizeResult is any pair of a last iterate x and a success flag.  The  *)
(* iterate ranges over the multiples of 1/WeightGrid from -1/WeightGrid to  *)
(* 1, and the starting point.  cov_matrix is read by the solver only.       *)

MeanReturnVectors == UNION {[1..n -> {1, 3}] : n \in 1..MaxAssets}
TargetReturns == {0, 1, 2, 3}

\* n_assets * [1. / n_assets]
InitialGuess(n_assets) == [i \in 1..n_assets |-> Rat(1, n_assets)]

\* tuple((0, 1) for asset in range(n_assets))
Bounds(n_assets) == [i \in 1..n_assets |-> <<0, 1>>]

SolverIterates(n_assets) ==
    [1..n_assets -> {Rat(k, WeightGrid) : k \in (-1)..WeightGrid}]
        \cup {InitialGuess(n_assets)}

OptimizeResults(n_assets) ==
    [x : SolverIterates(n_assets), success : BOOLEAN]

frontier_checked(res) ==
    IF res.success THEN Value(res.x) ELSE Raise("RuntimeError")

\* return result.x
efficient_frontier(res) == Value(res.x)

CallEfficientFrontier ==
    /\ pc = 1 /\ op = "none"
    /\ \E mu \in MeanReturnVectors, target \in TargetReturns :
          \E res \in OptimizeResults(Len(mu)) :
             /\ op' = "efficient_frontier"
             /\ args' = [mean_returns |-> mu, cov_matrix |-> "cov_matrix",
                         target_return |-> target]
             /\ locals' = [n_assets |-> Len(mu),
                           bounds |-> Bounds(Len(mu)),
                           minimize_calls |-> <<[x0 |-> InitialGuess(Len(mu)),
                                                 result |-> res]>>]
             /\ result' = efficient_frontier(res)
    /\ UNCHANGED <<pc, defined, raised>>

\* C7: efficient_frontier calls the solver exactly once, from equal weights
\* 1/n, and returns the solver's last iterate whatever the outcome: a failed
\* solve raises nothing and the caller gets the bare weight vector.
C7_SolverOutcomeReturnedUnchecked ==
    op = "efficient_frontier" =>
        LET n == Len(args.mean_returns)
        IN  /\ Len(locals.minimize_calls) = 1
            /\ DOMAIN locals.minimize_calls[1].x0 = 1..n
            /\ \A i \in 1..n :
                  locals.minimize_calls[1].x0[i] = [num |-> 1, den |-> n]
            /\ result.kind = "value"
            /\ result.val = locals.minimize_calls[1].result.x
            /\ DOMAIN result.val = 1..n

\* a failed solve whose iterate does not sum to 1 is returned as the weights
C7_Witness ==
    /\ op = "efficient_frontier"
    /\ Len(args.mean_returns) >= 2
    /\ ~locals.minimize_calls[1].result.success
    /\ RatSumSeq(locals.minimize_calls[1].result.x) /= RatInt(1)
    /\ result = Value(locals.minimize_calls[1].result.x)

----------------------------------------------------------------------------
(* The top-level statements of the module, in file order.  reads: the      *)
(* global names the statement looks up when it executes (a def looks up    *)
(* none; a call also looks up the globals the called body uses); writes:   *)
(* the names it binds.                                                     *)

Stmt(l, r, w) == [line |-> l, reads |-> r, writes |-> w]

FrontierReads ==
    {"efficient_frontier", "portfolio_performance", "minimize_risk", "minimize", "np"}

Script == <<
    Stmt(1, {}, {"np"}),
    Stmt(2, {}, {"pd"}),
    Stmt(3, {}, {"minimize"}),
    Stmt(4, {}, {"plt"}),
    Stmt(8, {}, {"calculate_dcf"}),
    Stmt(23, {}, {"calculate_var_cvar"}),
    Stmt(34, {}, {"calculate_sharpe_ratio"}),
    Stmt(41, {}, {"fama_french_three_factor_model"}),
    Stmt(49, {}, {"rebalance_portfolio"}),
    Stmt(60, {}, {"portfolio_performance"}),
    Stmt(65, {}, {"minimize_risk"}),
    Stmt(68, {}, {"efficient_frontier"}),
    Stmt(78, {}, {"yf"}),
    Stmt(80, {}, {"fetch_market_data"}),
    Stmt(88, {}, {"tickers"}),
    Stmt(89, {}, {"start_date"}),
    Stmt(90, {}, {"end_date"}),
    Stmt(92, {"pd", "price_data"}, {"price_df"}),
    Stmt(93, {"price_df"}, {"returns"}),
    Stmt(96, {"returns"}, {"mean_returns"}),
    Stmt(97, {"returns"}, {"cov_matrix"}),
    Stmt(100, FrontierReads \cup {"mean_returns", "cov_matrix"}, {"optimal_weights"}),
    Stmt(101, {"optimal_weights"}, {}),
    Stmt(103, {"tickers", "fetch_market_data", "start_date", "end_date", "yf"},
              {"price_data"}),
    Stmt(106, {}, {"adjust_portfolio_with_costs"}),
    Stmt(114, {}, {"plot_efficient_frontier"}),
    Stmt(124, FrontierReads \cup {"mean_returns", "cov_matrix"}, {"optimal_weights"}),
    Stmt(125, {"optimal_weights"}, {}),
    Stmt(128, {"adjust_portfolio_with_costs", "optimal_weights"}, {"adjusted_weights"}),
    Stmt(129, {"adjusted_weights"}, {}),
    Stmt(132, {"np", "returns", "optimal_weights"}, {"portfolio_returns"}),
    Stmt(133, {"calculate_var_cvar", "np", "portfolio_returns"}, {"var", "cvar"}),
    Stmt(134, {"var", "cvar"}, {}) >>

\* one top-level statement executes, or raises NameError and ends the run
ExecStatement ==
    /\ op = "none"
    /\ raised = "none"
    /\ pc <= Len(Script)
    /\ IF Script[pc].reads \subseteq defined
       THEN /\ defined' = defined \cup Script[pc].writes
            /\ pc' = pc + 1
            /\ raised' = "none"
       ELSE /\ raised' = "NameError"
            /\ UNCHANGED <<pc, defined>>
    /\ UNCHANGED <<op, args, locals, result>>

\* C5 as claimed: every top-level statement finds the names it reads already
\* assigned (the prices are fetched before the returns calculator reads them,
\* the statistics computed before the optimizer is called), so no run ends in
\* NameError.
C5_StatementsReadAssignedNames ==
    /\ raised = "none"
    /\ pc <= Len(Script) => Script[pc].reads \subseteq defined

----------------------------------------------------------------------------

Init ==
    /\ pc = 1
    /\ defined = {}
    /\ raised = "none"
    /\ op = "none"
    /\ args = NoCall
    /\ locals = NoCall
    /\ result = NoCall

Next ==
    \/ ExecStatement
    \/ CallRebalance
    \/ CallVarCvar
    \/ CallSharpeRatio
    \/ CallAdjustPortfolio
    \/ CallDcf
    \/ CallDcfRaises
    \/ CallEfficientFrontier

Spec == Init /\ [][Next]_vars

=============================================================================
